---- MODULE Spec2Model ----
(***************************************************************************)
(* Model of the Discord RPC client (discord/client.go) and of the Bridge   *)
(* that drives it (main.go).                                               *)
(*                                                                         *)
(* Three specifications share the variables:                               *)
(*   Spec      one caller invokes Client.Login / Logout / SetActivity /    *)
(*             ClearActivity in any order, every I/O call of the client    *)
(*             being one step whose outcome the environment chooses;       *)
(*   SpecConc  two concurrent callers invoke the Bridge methods Connect,   *)
(*             Disconnect, ClearPresence and UpdatePresence, which run the *)
(*             same client steps under Bridge.mu;                          *)
(*   SpecEnc   SetActivity's mapping of an Activity to the JSON activity   *)
(*             object, applied to every Activity of a bounded set.         *)
(***************************************************************************)
EXTENDS Integers, Sequences, FiniteSets, TLC

\* ------------------------------------------------------------------ bounds

\* Sockets the environment lets openSocket connect to over one behaviour.
MaxConns == 2

\* Longest Buttons slice of an Activity handed to the encoder.
MaxButtons == 2

\* ------------------------------------------------------------- constants

ActivityTypePlaying == 0
ActivityTypeStreaming == 1
ActivityTypeListening == 2
ActivityTypeWatching == 3
ActivityTypeCompeting == 5

\* Pointers: Nil is the nil pointer, Ptr(v) points to v, Deref(p) is *p.
Nil == <<>>

Ptr(v) == <<v>>

Deref(p) == p[1]

\* c.conn == nil
NoConn == 0

\* Microseconds in a millisecond: the model's instants count microseconds.
MicrosPerMilli == 1000

\* ------------------------------------------------------- activity encoder

\* Values of the string fields of an Activity.
Strings == {"", "s"}

\* Values of Activity.Type, an unconstrained int.
TypeInputs == {ActivityTypePlaying, ActivityTypeStreaming, ActivityTypeListening,
               ActivityTypeWatching, 4, ActivityTypeCompeting}

\* time.Time values, in microseconds since the epoch (at or after the epoch,
\* where the uint64 conversion of UnixMilli's int64 does not wrap).
Instants == {0, 1999, 5000}

\* *time.Time
OptInstants == {Nil} \cup {Ptr(t) : t \in Instants}

\* *Timestamps
TimestampsInputs == {Nil} \cup {Ptr(ts) : ts \in [Start : OptInstants, End : OptInstants]}

\* Button values; a field may be the empty string.
Button == [Label : {"", "l"}, Url : {"", "u"}]

RECURSIVE SeqsUpTo(_, _)
SeqsUpTo(S, n) ==
    IF n = 0 THEN {<<>>}
    ELSE LET shorter == SeqsUpTo(S, n - 1)
         IN  shorter \cup {Append(s, x) : s \in {q \in shorter : Len(q) = n - 1}, x \in S}

ButtonsInputs == SeqsUpTo(Button, MaxButtons)

Activity ==
    [Type : TypeInputs, Details : Strings, State : Strings,
     LargeImage : Strings, LargeText : Strings,
     SmallImage : Strings, SmallText : Strings,
     Timestamps : TimestampsInputs, Buttons : ButtonsInputs]

\* time.Time.UnixMilli followed by the uint64 conversion.
UnixMilli(t) == t \div MicrosPerMilli

\* encoding/json on a struct: fields is a sequence of <<key, emitted, value>>;
\* the object holds the keys whose field is emitted.
JsonObject(fields) ==
    LET idx == {i \in 1..Len(fields) : fields[i][2]}
    IN  [k \in {fields[i][1] : i \in idx} |->
            fields[CHOOSE i \in idx : fields[i][1] = k][3]]

\* A string field tagged without omitempty: always emitted.
OmitEmptyString_Always(s) == TRUE

\* `json:",omitempty"` on a string field: emitted unless "".
OmitEmptyString(s) == s # ""

\* json.Marshal(payloadAssets)
MarshalAssets(as) ==
    JsonObject(<< <<"large_image", OmitEmptyString(as.LargeImage), as.LargeImage>>,
                  <<"large_text", OmitEmptyString(as.LargeText), as.LargeText>>,
                  <<"small_image", OmitEmptyString(as.SmallImage), as.SmallImage>>,
                  <<"small_text", OmitEmptyString(as.SmallText), as.SmallText>> >>)

\* json.Marshal(payloadTimestamps): a *uint64 with omitempty is emitted unless nil.
MarshalTimestamps(ts) ==
    JsonObject(<< <<"start", ts.Start # Nil, IF ts.Start = Nil THEN Nil ELSE Deref(ts.Start)>>,
                  <<"end", ts.End # Nil, IF ts.End = Nil THEN Nil ELSE Deref(ts.End)>> >>)

\* json.Marshal(payloadButton)
MarshalButton(b) ==
    JsonObject(<< <<"label", OmitEmptyString(b.Label), b.Label>>,
                  <<"url", OmitEmptyString(b.Url), b.Url>> >>)

\* An int field tagged with omitempty: dropped when 0.
TypeEmitted_OmitEmpty(n) == n # 0

\* `json:"type"` on the int field Type: no omitempty, always emitted.
TypeEmitted(n) == TRUE

\* json.Marshal(payloadActivity). omitempty has no effect on the struct-typed
\* Assets field, drops a nil Timestamps pointer and drops an empty Buttons slice.
MarshalActivity(pa) ==
    JsonObject(<< <<"type", TypeEmitted(pa.Type), pa.Type>>,
                  <<"details", OmitEmptyString(pa.Details), pa.Details>>,
                  <<"state", OmitEmptyString(pa.State), pa.State>>,
                  <<"assets", TRUE, MarshalAssets(pa.Assets)>>,
                  <<"timestamps", pa.Timestamps # Nil,
                    IF pa.Timestamps = Nil THEN Nil
                    ELSE MarshalTimestamps(Deref(pa.Timestamps))>>,
                  <<"buttons", Len(pa.Buttons) > 0,
                    [i \in 1..Len(pa.Buttons) |-> MarshalButton(pa.Buttons[i])]>> >>)

\* SetActivity's `if activity.Timestamps != nil { ... }` block.
PayloadTimestamps(ts) ==
    IF ts = Nil THEN Nil
    ELSE Ptr([Start |-> IF Deref(ts).Start # Nil
                        THEN Ptr(UnixMilli(Deref(Deref(ts).Start))) ELSE Nil,
              End |-> IF Deref(ts).End # Nil
                      THEN Ptr(UnixMilli(Deref(Deref(ts).End))) ELSE Nil])

\* A loop that puts each new button in front of those already collected.
PayloadButtons_Prepend(btns) ==
    [i \in 1..Len(btns) |->
        [Label |-> btns[Len(btns) + 1 - i].Label, Url |-> btns[Len(btns) + 1 - i].Url]]

\* SetActivity's loop over activity.Buttons: one payloadButton appended per
\* Button, in order.
PayloadButtons(btns) ==
    [i \in 1..Len(btns) |-> [Label |-> btns[i].Label, Url |-> btns[i].Url]]

\* SetActivity's mapping of the Activity to the payloadActivity struct.
PayloadActivity(a) ==
    [Type |-> a.Type, Details |-> a.Details, State |-> a.State,
     Assets |-> [LargeImage |-> a.LargeImage, LargeText |-> a.LargeText,
                 SmallImage |-> a.SmallImage, SmallText |-> a.SmallText],
     Timestamps |-> PayloadTimestamps(a.Timestamps),
     Buttons |-> PayloadButtons(a.Buttons)]

\* The "activity" member of the SET_ACTIVITY frame SetActivity sends.
EncodeActivity(a) == MarshalActivity(PayloadActivity(a))

VARIABLES
    conn,       \* Client.conn: NoConn or the endpoint held
    logged,     \* Client.logged
    epState,    \* endpoint -> "unopened" | "open" | "closed"
    peer,       \* endpoint -> what its peer does: "live" | "mute" | "dead"
    hdrBy,      \* endpoint -> the caller whose send() is between its two writes
    torn,       \* a write landed between the two writes of another caller's send()
    cpc,        \* caller -> position inside the client operation it runs
    op,         \* caller -> the client operation it runs or ran last
    frm,        \* caller -> the frame its send() is writing
    res,        \* caller -> what its client operation returned
    io,         \* caller -> the I/O calls of its current client operation
    last,       \* in Spec, the call the caller completed before the current one
    mu,         \* Bridge.mu: its holder, or NoCaller
    connected,  \* Bridge.connected
    cache,      \* ArtworkCache.cache
    bm,         \* caller -> the Bridge method it runs
    bpc,        \* caller -> position inside that method
    barg,       \* caller -> the track handed to UpdatePresence
    activity,   \* pointer to the Activity handed to the encoder, Nil outside SpecEnc
    payload,    \* pointer to the activity object the encoder produced, or Nil
    fr,         \* one send() and the receive() that reads it back, Nil outside SpecFrame
    loc,        \* one openSocket() call and its environment, Nil outside SpecLoc
    nc,         \* one nonce() call and its random bytes, Nil outside SpecNonce
    mpc,        \* main goroutine: its position in main and pollAndUpdate
    spc,        \* main goroutine: its position in the shutdown case of the select
    sig,        \* a signal waits in the shutdown channel
    lastTrack,  \* Bridge.lastTrack
    lastState,  \* Bridge.lastState
    pstate,     \* pollAndUpdate's local state, while a ClearPresence it called runs
    prevObs,    \* history: what the last poll that reached the switch observed
    sdConn,     \* history: Bridge.connected when the shutdown case was entered
    sdLog,      \* history: what the shutdown case has done so far
    fetch,      \* history: how the last UpdatePresence got its artwork URL
    got,        \* history: (artist, album) -> the URL a fetch returned for it
    plog,       \* history: what the client calls of the poll in progress did
    failed      \* history: the track of the latest presence update, if its send failed

clientVars == <<conn, logged>>
envVars == <<epState, peer, hdrBy, torn>>
callVars == <<cpc, op, frm, res, io, last>>
bridgeVars == <<mu, connected, cache, bm, bpc, barg>>
encVars == <<activity, payload>>
pureVars == <<fr, loc, nc>>
mainVars == <<mpc, spc, sig, lastTrack, lastState, pstate, prevObs, sdConn, sdLog, fetch, got,
              plog, failed>>
vars == <<conn, logged, epState, peer, hdrBy, torn, cpc, op, frm, res, io, last,
          mu, connected, cache, bm, bpc, barg, activity, payload, fr, loc, nc,
          mpc, spc, sig, lastTrack, lastState, pstate, prevObs, sdConn, sdLog, fetch, got,
          plog, failed>>

\* ------------------------------------------------------------------ client

\* The goroutines that may call in: the periodic update and the shutdown path.
Callers == {"ticker", "signal"}

NoCaller == "none"

Endpoints == 1..MaxConns

\* The frame a caller's send() holds when it is not sending.
NoFrame == [opcode |-> -1, payload |-> Nil]

\* json.Marshal(handshake{"1", c.clientID})
HandshakeFrame == [opcode |-> 0, payload |-> [v |-> "1", client_id |-> "clientID"]]

\* json.Marshal(frame{Cmd, Args{pid, activity}, Nonce}) sent as opcode 1; act is
\* the activity object, or Nil for the JSON null ClearActivity sends.
CommandFrame(act) ==
    [opcode |-> 1,
     payload |-> [cmd |-> "SET_ACTIVITY",
                  args |-> [pid |-> "os.Getpid()", activity |-> act],
                  nonce |-> "nonce()"]]

\* One I/O call: k names it, r is its outcome, opcode the frame's for a write.
Event(k, r, opcode) == [k |-> k, r |-> r, opcode |-> opcode]

NoCall == [op |-> "none", res |-> "none", io |-> <<>>]

\* The endpoint the next successful net.Dial returns.
FreshEndpoint == CHOOSE e \in Endpoints :
                    epState[e] = "unopened" /\ \A d \in Endpoints : d < e => epState[d] # "unopened"

\* openSocket's outcomes: a connection while the environment has a socket left
\* to accept on, or the "not found" error.
DialOutcomes == IF \E e \in Endpoints : epState[e] = "unopened" THEN {"ok", "err"} ELSE {"err"}

\* c.conn.Write's outcomes: a nil conn panics, a closed one fails, and so does
\* one whose peer has closed ("dead").
WriteOutcomes ==
    IF conn = NoConn THEN {"panic"}
    ELSE IF epState[conn] = "open" /\ peer[conn] # "dead" THEN {"ok", "err"} ELSE {"err"}

\* A receive that sets a read deadline before each Read.
ReadDeadline_Set == TRUE

\* receive calls c.conn.Read with no deadline set on the connection.
ReadDeadline == FALSE

\* c.conn.Read's outcomes; a short read returns n < len(buf) and a nil error.
\* With a mute peer the Read returns only when a deadline expires: without
\* one it has no outcome, the caller stays blocked in it.
ReadOutcomes ==
    IF conn = NoConn THEN {"panic"}
    ELSE IF epState[conn] # "open" THEN {"err"}
    ELSE IF peer[conn] = "dead" THEN {"err"}
    ELSE IF peer[conn] = "mute" THEN (IF ReadDeadline THEN {"err"} ELSE {})
    ELSE {"ok", "short", "err"}

\* The operation of caller t returns r after the I/O calls evs.
Finish(t, r, evs) ==
    /\ cpc' = [cpc EXCEPT ![t] = "done"]
    /\ res' = [res EXCEPT ![t] = r]
    /\ io' = [io EXCEPT ![t] = evs]

\* The operation of caller t goes on at position pos after the I/O calls evs.
Goto(t, pos, evs) ==
    /\ cpc' = [cpc EXCEPT ![t] = pos]
    /\ res' = [res EXCEPT ![t] = "pending"]
    /\ io' = [io EXCEPT ![t] = evs]

\* A Login without the early return: it connects again whatever c.logged is.
AlreadyLogged_Never == FALSE

\* Login's `if c.logged { return nil }`.
AlreadyLogged == logged

\* Login up to and including openSocket and `c.conn = conn`.
LoginEnter(t) ==
    /\ cpc[t] = "idle"
    /\ op' = [op EXCEPT ![t] = "Login"]
    /\ UNCHANGED <<logged, hdrBy, torn, last>>
    /\ IF AlreadyLogged
       THEN /\ Finish(t, "ok", <<>>)
            /\ UNCHANGED <<conn, epState, peer, frm>>
       ELSE \E r \in DialOutcomes :
              IF r = "ok"
              THEN /\ conn' = FreshEndpoint
                   /\ epState' = [epState EXCEPT ![FreshEndpoint] = "open"]
                   /\ peer' = [peer EXCEPT ![FreshEndpoint] = "live"]
                   /\ frm' = [frm EXCEPT ![t] = HandshakeFrame]
                   /\ Goto(t, "send_header", <<Event("dial", r, -1)>>)
              ELSE /\ Finish(t, "ConnectError", <<Event("dial", r, -1)>>)
                   /\ UNCHANGED <<conn, epState, peer, frm>>

\* send's `if _, err := c.conn.Write(...); err != nil`.
WriteFailed(r) == r # "ok"

\* A receive that drops the error of Read as it drops the count.
ReadFailed_Ignored(r) == FALSE

\* receive's `if _, err := c.conn.Read(...); err != nil`: the count is dropped.
ReadFailed(r) == r \notin {"ok", "short"}

\* The error send() returns to the operation, which returns it as it is.
SendError(r) == IF r = "panic" THEN "panic" ELSE "IOError"

\* send: the header's Write.
SendHeader(t) ==
    /\ cpc[t] = "send_header"
    /\ UNCHANGED <<conn, logged, epState, peer, op, frm, last>>
    /\ \E r \in WriteOutcomes :
         LET evs == Append(io[t], Event("write_header", r, frm[t].opcode))
         IN  IF ~WriteFailed(r)
             THEN /\ torn' = (torn \/ hdrBy[conn] \notin {NoCaller, t})
                  /\ hdrBy' = [hdrBy EXCEPT ![conn] = t]
                  /\ Goto(t, "send_payload", evs)
             ELSE /\ Finish(t, SendError(r), evs)
                  /\ UNCHANGED <<hdrBy, torn>>

\* Every operation awaits a reply frame after its send().
AfterSend_AwaitReply(o) == "recv_header"

\* Where an operation goes on after its send() returned nil.
AfterSend(o) == IF o = "Login" THEN "recv_header" ELSE "done"

\* send: the payload's Write, and the return to Login, SetActivity or ClearActivity.
SendPayload(t) ==
    /\ cpc[t] = "send_payload"
    /\ UNCHANGED <<conn, logged, epState, peer, op, frm, last>>
    /\ \E r \in WriteOutcomes :
         LET evs == Append(io[t], Event("write_payload", r, frm[t].opcode))
         IN  IF ~WriteFailed(r)
             THEN /\ torn' = (torn \/ hdrBy[conn] # t)
                  /\ hdrBy' = [hdrBy EXCEPT ![conn] = NoCaller]
                  /\ IF AfterSend(op[t]) = "done"
                     THEN Finish(t, "ok", evs)
                     ELSE Goto(t, AfterSend(op[t]), evs)
             ELSE /\ Finish(t, SendError(r), evs)
                  /\ hdrBy' = IF conn # NoConn /\ hdrBy[conn] = t
                              THEN [hdrBy EXCEPT ![conn] = NoCaller]
                              ELSE hdrBy
                  /\ UNCHANGED torn

\* The error Login returns when receive() failed.
RecvError(r) == IF r = "panic" THEN "panic" ELSE "HandshakeError"

\* receive: the header's Read; only the error is looked at, not the count.
RecvHeader(t) ==
    /\ cpc[t] = "recv_header"
    /\ UNCHANGED <<conn, logged, epState, peer, hdrBy, torn, op, frm, last>>
    /\ \E r \in ReadOutcomes :
         LET evs == Append(io[t], Event("read_header", r, -1))
         IN  IF ~ReadFailed(r)
             THEN Goto(t, "recv_payload", evs)
             ELSE Finish(t, RecvError(r), evs)

\* receive: the payload's Read, then Login's `c.logged = true`.
RecvPayload(t) ==
    /\ cpc[t] = "recv_payload"
    /\ UNCHANGED <<conn, epState, peer, hdrBy, torn, op, frm, last>>
    /\ \E r \in ReadOutcomes :
         LET evs == Append(io[t], Event("read_payload", r, -1))
         IN  IF ~ReadFailed(r)
             THEN /\ logged' = TRUE
                  /\ Finish(t, "ok", evs)
             ELSE /\ Finish(t, RecvError(r), evs)
                  /\ UNCHANGED logged

\* A Logout that closes the connection and leaves c.logged as it was.
LogoutState_KeepsFlag == [conn |-> NoConn, logged |-> logged]

\* The Client's fields when Logout returns.
LogoutState == [conn |-> NoConn, logged |-> FALSE]

\* Logout: close and forget the connection, clear the flag.
Logout(t) ==
    /\ cpc[t] = "idle"
    /\ op' = [op EXCEPT ![t] = "Logout"]
    /\ UNCHANGED <<peer, hdrBy, torn, frm, last>>
    /\ IF conn # NoConn
       THEN /\ epState' = [epState EXCEPT ![conn] = "closed"]
            /\ Finish(t, "ok", <<Event("close", "ok", -1)>>)
       ELSE /\ Finish(t, "ok", <<>>)
            /\ UNCHANGED epState
    /\ conn' = LogoutState.conn
    /\ logged' = LogoutState.logged

\* The test made on the connection instead of the flag.
Disconnected_ByConn == conn = NoConn

\* The `!c.logged` test of SetActivity and ClearActivity.
Disconnected == ~logged

\* SetActivity up to the call of send().
SetActivityEnter(t, a) ==
    /\ cpc[t] = "idle"
    /\ op' = [op EXCEPT ![t] = "SetActivity"]
    /\ UNCHANGED <<conn, logged, epState, peer, hdrBy, torn, last>>
    /\ IF Disconnected
       THEN /\ Finish(t, "NotLoggedIn", <<>>)
            /\ UNCHANGED frm
       ELSE /\ frm' = [frm EXCEPT ![t] = CommandFrame(EncodeActivity(a))]
            /\ Goto(t, "send_header", <<>>)

\* ClearActivity up to the call of send().
ClearActivityEnter(t) ==
    /\ cpc[t] = "idle"
    /\ op' = [op EXCEPT ![t] = "ClearActivity"]
    /\ UNCHANGED <<conn, logged, epState, peer, hdrBy, torn, last>>
    /\ IF Disconnected
       THEN /\ Finish(t, "ok", <<>>)
            /\ UNCHANGED frm
       ELSE /\ frm' = [frm EXCEPT ![t] = CommandFrame(Nil)]
            /\ Goto(t, "send_header", <<>>)

\* The operation of caller t has returned to its caller: its locals are gone.
Returned(t) ==
    /\ cpc[t] = "done"
    /\ cpc' = [cpc EXCEPT ![t] = "idle"]
    /\ op' = [op EXCEPT ![t] = "none"]
    /\ frm' = [frm EXCEPT ![t] = NoFrame]
    /\ res' = [res EXCEPT ![t] = "none"]
    /\ io' = [io EXCEPT ![t] = <<>>]
    /\ UNCHANGED <<conn, logged, epState, peer, hdrBy, torn>>

\* ------------------------------------------------------------------ bridge

\* Track values GetCurrentTrack may return; Duration and PlayerPosition are the
\* float64 seconds, in milliseconds.
\* PlayerState
StateNotRunning == 0
StatePaused == 1
StatePlaying == 2

\* (artist, album) pairs: two different pairs that join to the same cache key,
\* and a third with a key of its own.
AlbumPairs == {<<"a", "b|c">>, <<"a|b", "c">>, <<"a", "d">>}

\* What GetCurrentTrack may report: one title on every album at two positions,
\* and a second title.
Tracks ==
    {[Name |-> "n1", Artist |-> ab[1], Album |-> ab[2], Duration |-> 3500, PlayerPosition |-> p] :
        ab \in AlbumPairs, p \in {0, 1200}}
    \cup {[Name |-> "n2", Artist |-> "a", Album |-> "d", Duration |-> 3500, PlayerPosition |-> 0]}

\* The track argument of a caller that is not inside UpdatePresence.
NoTrack == [Name |-> "", Artist |-> "", Album |-> "", Duration |-> 0, PlayerPosition |-> 0]

\* URLs a successful FetchArtworkURL may return.
Urls == {"u1", "u2"}

\* Values of time.Now() inside UpdatePresence.
Nows == {1999}

\* ArtworkCache.cacheKey: artist + "|" + album.
cacheKey(artist, album) ==
    CASE artist = "a" /\ album = "b|c" -> "a|b|c"
      [] artist = "a|b" /\ album = "c" -> "a|b|c"
      [] artist = "a" /\ album = "d" -> "a|d"

\* fmt.Sprintf("by %s", track.Artist)
ByArtist(artist) ==
    CASE artist = "a" -> "by a"
      [] artist = "a|b" -> "by a|b"

\* float64 to integer conversion: truncation toward zero.
Trunc(a, b) == IF a >= 0 THEN a \div b ELSE -((-a) \div b)

\* time.Now().Add(time.Duration(remainingSeconds) * time.Second), in microseconds.
EndTime(now, track) == now + Trunc(track.Duration - track.PlayerPosition, 1000) * 1000000

\* The discord.Activity UpdatePresence builds.
TrackActivity(track, artworkURL, now) ==
    [Type |-> ActivityTypeListening, Details |-> track.Name,
     State |-> ByArtist(track.Artist),
     LargeImage |-> artworkURL, LargeText |-> track.Album,
     SmallImage |-> "", SmallText |-> "",
     Timestamps |-> Ptr([Start |-> Nil, End |-> Ptr(EndTime(now, track))]),
     Buttons |-> <<>>]

\* The Bridge methods each caller invokes: pollAndUpdate's on the ticker, the
\* shutdown path's on the signal.
MethodsOf(t) ==
    IF t = "ticker" THEN {"Connect", "UpdatePresence", "ClearPresence"}
    ELSE {"ClearPresence", "Disconnect"}

\* Caller t invokes Bridge method m; trk is the track handed to UpdatePresence.
Invoke(t, m, trk) ==
    /\ bpc[t] = "idle"
    /\ bm' = [bm EXCEPT ![t] = m]
    /\ barg' = [barg EXCEPT ![t] = trk]
    /\ bpc' = [bpc EXCEPT ![t] = "lock"]
    /\ UNCHANGED <<clientVars, envVars, callVars, mu, connected, cache, encVars, pureVars>>

\* Caller t invokes one of its Bridge methods.
BridgeCall(t) ==
    \E m \in MethodsOf(t) :
        \E trk \in IF m = "UpdatePresence" THEN Tracks ELSE {NoTrack} : Invoke(t, m, trk)

\* A Lock that does not wait for the holder to unlock.
MuFree_Unchecked == TRUE

\* sync.Mutex.Lock returns only when no caller holds b.mu.
MuFree == mu = NoCaller

\* b.mu.Lock()
Lock(t) ==
    /\ bpc[t] = "lock"
    /\ MuFree
    /\ mu' = t
    /\ bpc' = [bpc EXCEPT ![t] = "locked"]
    /\ UNCHANGED <<clientVars, envVars, callVars, connected, cache, bm, barg, encVars, pureVars>>

\* The method returns without calling the client.
SkipClient(t) ==
    /\ bpc' = [bpc EXCEPT ![t] = "unlock"]
    /\ UNCHANGED <<clientVars, envVars, callVars>>

\* Connect between Lock and the return of Login.
ConnectBody(t) ==
    /\ bpc[t] = "locked" /\ bm[t] = "Connect"
    /\ IF connected
       THEN SkipClient(t)
       ELSE LoginEnter(t) /\ bpc' = [bpc EXCEPT ![t] = "client"]
    /\ UNCHANGED <<mu, connected, cache, bm, barg, encVars, pureVars>>

\* A Connect that drops Login's error.
LoginOk_Ignored(r) == TRUE

\* `if err := b.client.Login(); err != nil { return ... }`
LoginOk(r) == r = "ok"

\* Connect after Login returned: `b.connected = true` unless Login failed.
ConnectRet(t) ==
    /\ bpc[t] = "client" /\ bm[t] = "Connect"
    /\ Returned(t)
    /\ connected' = (IF LoginOk(res[t]) THEN TRUE ELSE connected)
    /\ bpc' = [bpc EXCEPT ![t] = "unlock"]
    /\ UNCHANGED <<last, mu, cache, bm, barg, encVars, pureVars>>

\* Disconnect between Lock and the return of Logout.
DisconnectBody(t) ==
    /\ bpc[t] = "locked" /\ bm[t] = "Disconnect"
    /\ IF ~connected
       THEN SkipClient(t)
       ELSE Logout(t) /\ bpc' = [bpc EXCEPT ![t] = "client"]
    /\ UNCHANGED <<mu, connected, cache, bm, barg, encVars, pureVars>>

\* Disconnect after Logout returned: `b.connected = false`.
DisconnectRet(t) ==
    /\ bpc[t] = "client" /\ bm[t] = "Disconnect"
    /\ Returned(t)
    /\ connected' = FALSE
    /\ bpc' = [bpc EXCEPT ![t] = "unlock"]
    /\ UNCHANGED <<last, mu, cache, bm, barg, encVars, pureVars>>

\* ClearPresence between Lock and the return of ClearActivity.
ClearPresenceBody(t) ==
    /\ bpc[t] = "locked" /\ bm[t] = "ClearPresence"
    /\ IF ~connected
       THEN SkipClient(t)
       ELSE ClearActivityEnter(t) /\ bpc' = [bpc EXCEPT ![t] = "client"]
    /\ UNCHANGED <<mu, connected, cache, bm, barg, encVars, pureVars>>

\* ClearPresence after ClearActivity returned; its error is dropped.
ClearPresenceRet(t) ==
    /\ bpc[t] = "client" /\ bm[t] = "ClearPresence"
    /\ Returned(t)
    /\ bpc' = [bpc EXCEPT ![t] = "unlock"]
    /\ UNCHANGED <<last, mu, connected, cache, bm, barg, encVars, pureVars>>

\* ArtworkCache.Get's second result.
Cached(artist, album) == cacheKey(artist, album) \in DOMAIN cache

\* ArtworkCache.Set
CacheSet(artist, album, url) ==
    [k \in DOMAIN cache \cup {cacheKey(artist, album)} |->
        IF k = cacheKey(artist, album) THEN url ELSE cache[k]]

\* An UpdatePresence that asks the service whatever the cache holds.
ArtworkOutcomes_AlwaysFetch(track) == Urls \cup {"error"}

\* How UpdatePresence gets the artwork URL of track: from the cache when it
\* holds the key, otherwise from FetchArtworkURL, which returns a URL or fails.
ArtworkOutcomes(track) ==
    IF Cached(track.Artist, track.Album) THEN {"cached"} ELSE Urls \cup {"error"}

\* UpdatePresence between Lock and the return of SetActivity, with the outcome
\* of the artwork lookup ("none" when it returns before it, not connected) and
\* the value of time.Now(): the artwork URL, the end time, the Activity.
UpdatePresenceBodyWith(t, fetched, now) ==
    /\ bpc[t] = "locked" /\ bm[t] = "UpdatePresence"
    /\ IF ~connected
       THEN fetched = "none" /\ SkipClient(t) /\ UNCHANGED cache
       ELSE LET track == barg[t]
                artworkURL ==
                    IF fetched = "cached" THEN cache[cacheKey(track.Artist, track.Album)]
                    ELSE IF fetched = "error" THEN "" ELSE fetched
            IN  /\ fetched \in ArtworkOutcomes(track)
                /\ cache' = IF fetched \in Urls
                            THEN CacheSet(track.Artist, track.Album, fetched)
                            ELSE cache
                /\ SetActivityEnter(t, TrackActivity(track, artworkURL, now))
                /\ bpc' = [bpc EXCEPT ![t] = "client"]
    /\ UNCHANGED <<mu, connected, bm, barg, encVars, pureVars>>

UpdatePresenceBody(t) ==
    \E fetched \in Urls \cup {"cached", "error", "none"} :
        \E now \in Nows : UpdatePresenceBodyWith(t, fetched, now)

\* UpdatePresence after SetActivity returned; its error is only logged.
UpdatePresenceRet(t) ==
    /\ bpc[t] = "client" /\ bm[t] = "UpdatePresence"
    /\ Returned(t)
    /\ bpc' = [bpc EXCEPT ![t] = "unlock"]
    /\ UNCHANGED <<last, mu, connected, cache, bm, barg, encVars, pureVars>>

\* defer b.mu.Unlock(), and the method's return.
Unlock(t) ==
    /\ bpc[t] = "unlock"
    /\ mu' = NoCaller
    /\ bpc' = [bpc EXCEPT ![t] = "idle"]
    /\ bm' = [bm EXCEPT ![t] = "none"]
    /\ barg' = [barg EXCEPT ![t] = NoTrack]
    /\ UNCHANGED <<clientVars, envVars, callVars, connected, cache, encVars, pureVars>>

\* ------------------------------------------------- one caller of the client

\* The caller of Spec.
Caller == "ticker"

\* The Activities the caller hands to SetActivity: the one UpdatePresence builds
\* and the zero Activity.
CallActivities ==
    {[Type |-> ActivityTypeListening, Details |-> "s", State |-> "s",
      LargeImage |-> "s", LargeText |-> "s", SmallImage |-> "", SmallText |-> "",
      Timestamps |-> Ptr([Start |-> Nil, End |-> Ptr(5000)]), Buttons |-> <<>>],
     [Type |-> ActivityTypePlaying, Details |-> "", State |-> "",
      LargeImage |-> "", LargeText |-> "", SmallImage |-> "", SmallText |-> "",
      Timestamps |-> Nil, Buttons |-> <<>>]}

\* NewClient, NewBridge and NewArtworkCache; no caller is inside a call.
\* main before its first statement, with the Bridge NewBridge returns and
\* empty histories.
MainInit ==
    /\ mpc = "init"
    /\ spc = "idle"
    /\ sig = FALSE
    /\ lastTrack = Nil
    /\ lastState = StateNotRunning
    /\ pstate = Nil
    /\ prevObs = Nil
    /\ sdConn = FALSE
    /\ sdLog = <<>>
    /\ fetch = "none"
    /\ got = <<>>
    /\ plog = <<>>
    /\ failed = Nil

InitState ==
    /\ MainInit
    /\ conn = NoConn
    /\ logged = FALSE
    /\ epState = [e \in Endpoints |-> "unopened"]
    /\ peer = [e \in Endpoints |-> "live"]
    /\ hdrBy = [e \in Endpoints |-> NoCaller]
    /\ torn = FALSE
    /\ cpc = [t \in Callers |-> "idle"]
    /\ op = [t \in Callers |-> "none"]
    /\ frm = [t \in Callers |-> NoFrame]
    /\ res = [t \in Callers |-> "none"]
    /\ io = [t \in Callers |-> <<>>]
    /\ last = NoCall
    /\ mu = NoCaller
    /\ connected = FALSE
    /\ cache = <<>>
    /\ bm = [t \in Callers |-> "none"]
    /\ bpc = [t \in Callers |-> "idle"]
    /\ barg = [t \in Callers |-> NoTrack]

\* No send(), openSocket() or nonce() call is under study.
PureIdle == fr = Nil /\ loc = Nil /\ nc = Nil

Init ==
    /\ InitState
    /\ activity = Nil
    /\ payload = Nil
    /\ PureIdle

CallLogin ==
    /\ LoginEnter(Caller)
    /\ UNCHANGED <<bridgeVars, encVars, pureVars, mainVars>>

CallLogout ==
    /\ Logout(Caller)
    /\ UNCHANGED <<bridgeVars, encVars, pureVars, mainVars>>

CallSetActivity ==
    /\ \E a \in CallActivities : SetActivityEnter(Caller, a)
    /\ UNCHANGED <<bridgeVars, encVars, pureVars, mainVars>>

CallClearActivity ==
    /\ ClearActivityEnter(Caller)
    /\ UNCHANGED <<bridgeVars, encVars, pureVars, mainVars>>

CallReturns ==
    /\ Returned(Caller)
    /\ last' = [op |-> op[Caller], res |-> res[Caller], io |-> io[Caller]]
    /\ UNCHANGED <<bridgeVars, encVars, pureVars, mainVars>>

\* The I/O steps of the client operations in progress.
SendHeaderStep ==
    /\ \E t \in Callers : SendHeader(t)
    /\ UNCHANGED <<bridgeVars, encVars, pureVars, mainVars>>

SendPayloadStep ==
    /\ \E t \in Callers : SendPayload(t)
    /\ UNCHANGED <<bridgeVars, encVars, pureVars, mainVars>>

RecvHeaderStep ==
    /\ \E t \in Callers : RecvHeader(t)
    /\ UNCHANGED <<bridgeVars, encVars, pureVars, mainVars>>

RecvPayloadStep ==
    /\ \E t \in Callers : RecvPayload(t)
    /\ UNCHANGED <<bridgeVars, encVars, pureVars, mainVars>>

Next ==
    \/ CallLogin
    \/ CallLogout
    \/ CallSetActivity
    \/ CallClearActivity
    \/ CallReturns
    \/ SendHeaderStep
    \/ SendPayloadStep
    \/ RecvHeaderStep
    \/ RecvPayloadStep

Spec == Init /\ [][Next]_vars

\* ------------------------------------------------------ claims on the client

\* Caller t enters operation o in this step.
Enters(t, o) == cpc[t] = "idle" /\ cpc'[t] # "idle" /\ op'[t] = o

\* Operation o of caller t returns in this step.
Completes(t, o) == cpc[t] # "done" /\ cpc'[t] = "done" /\ op'[t] = o

\* The I/O calls of kind k in evs.
Calls(evs, k) == {i \in 1..Len(evs) : evs[i].k = k}

\* The kinds of the I/O calls in evs, in order.
Kinds(evs) == [i \in 1..Len(evs) |-> evs[i].k]

OpenEndpoints == {e \in Endpoints : epState[e] = "open"}

\* C1: in every reachable state, logged = true implies that the Client holds a
\* non-nil conn which the Client has not closed.
C1_LoggedHasOpenConn == logged => (conn # NoConn /\ epState[conn] = "open")

\* C1's case: still logged after a failed send, a Logout and a second Login.
C1_Witness ==
    /\ logged
    /\ last.res = "IOError"
    /\ \E e \in Endpoints : epState[e] = "closed"

\* C2: SetActivity entered while not logged returns the not-logged-in error and
\* ClearActivity entered while not logged returns nil; both return at once, with
\* no I/O call made and conn, logged and the endpoints unchanged.
C2_NoIOWhenDisconnected ==
    [][\A t \in Callers : \A o \in {"SetActivity", "ClearActivity"} :
          (Enters(t, o) /\ ~logged) =>
              /\ cpc'[t] = "done"
              /\ res'[t] = (IF o = "SetActivity" THEN "NotLoggedIn" ELSE "ok")
              /\ io'[t] = <<>>
              /\ UNCHANGED <<conn, logged, epState, hdrBy>>]_vars

\* C2's case: both operations have returned on a Client that is not logged and
\* still holds the connection of a failed Login.
C2_Witness ==
    /\ ~logged /\ conn # NoConn
    /\ last.op = "SetActivity" /\ last.res = "NotLoggedIn"
    /\ op[Caller] = "ClearActivity" /\ cpc[Caller] = "done" /\ res[Caller] = "ok"

\* C3 as stated: whenever two Login calls follow each other with no operation in
\* between, openSocket, the handshake send and the handshake receive are each
\* performed exactly once over the two calls.
C3_Original ==
    (op[Caller] = "Login" /\ cpc[Caller] = "done" /\ last.op = "Login") =>
        \A k \in {"dial", "write_header", "write_payload", "read_header", "read_payload"} :
            Cardinality(Calls(last.io, k)) + Cardinality(Calls(io[Caller], k)) = 1

\* C3 amended: a Login entered while logged returns nil at once with no I/O call
\* and nothing changed; the Client is logged whenever the call before was a Login
\* that returned nil, and that Login made each I/O call at most once, so a Login
\* following a successful Login does no I/O; and a Login entered while not
\* logged calls openSocket again.
C3_LoginIdempotent ==
    [][\A t \in Callers :
          Enters(t, "Login") =>
              /\ (last.op = "Login" /\ last.res = "ok") =>
                    /\ logged
                    /\ \A k \in {"dial", "write_header", "write_payload",
                                  "read_header", "read_payload"} :
                         Cardinality(Calls(last.io, k)) <= 1
              /\ logged => /\ cpc'[t] = "done"
                           /\ res'[t] = "ok"
                           /\ io'[t] = <<>>
                           /\ UNCHANGED <<conn, logged, epState, hdrBy>>
              /\ ~logged => Cardinality(Calls(io'[t], "dial")) = 1]_vars

\* C3's case: a Login that did the handshake is followed by a Login that did none.
C3_Witness ==
    /\ op[Caller] = "Login" /\ cpc[Caller] = "done" /\ io[Caller] = <<>>
    /\ last.op = "Login" /\ last.res = "ok" /\ Len(last.io) = 5

\* The I/O calls of a Login whose handshake went through: one connection, the
\* opcode-0 frame written whole, one receive() (two reads) without error.
HandshakeDone(evs) ==
    /\ Kinds(evs) = <<"dial", "write_header", "write_payload", "read_header", "read_payload">>
    /\ \A i \in 1..Len(evs) : evs[i].r \in {"ok", "short"}
    /\ evs[2].opcode = 0 /\ evs[3].opcode = 0

\* C5: logged turns true only in the step in which a Login returns nil after
\* openSocket, the whole opcode-0 frame and exactly one receive() succeeded; a
\* Login entered while not logged that fails in openSocket, send or receive
\* returns an error and leaves logged false.
C5_LoginOnlyAfterHandshake ==
    [][/\ (~logged /\ logged') =>
            \E t \in Callers : Completes(t, "Login") /\ res'[t] = "ok" /\ HandshakeDone(io'[t])
       /\ \A t \in Callers :
            (Completes(t, "Login") /\ ~logged) =>
                IF HandshakeDone(io'[t])
                THEN res'[t] = "ok" /\ logged'
                ELSE /\ res'[t] \in {"ConnectError", "IOError", "HandshakeError"}
                     /\ ~logged'
                     /\ \E i \in 1..Len(io'[t]) : io'[t][i].r = "err"]_vars

\* C5's case: a Login failed in receive() and the Login after it succeeded.
C5_Witness ==
    /\ last.op = "Login" /\ last.res = "HandshakeError"
    /\ op[Caller] = "Login" /\ cpc[Caller] = "done" /\ res[Caller] = "ok" /\ logged

\* C6 as stated: when a Login has failed in the handshake send or receive, and
\* when a Logout has returned, the Client holds no open endpoint, and at most one
\* endpoint the Client opened is open at any time.
C6_NoEndpointAfterFailure ==
    /\ Cardinality(OpenEndpoints) <= 1
    /\ \A t \in Callers :
         (cpc[t] = "done" /\ op[t] = "Login" /\ res[t] \in {"IOError", "HandshakeError"}) =>
             (conn = NoConn \/ epState[conn] # "open")
    /\ \A t \in Callers :
         (cpc[t] = "done" /\ op[t] = "Logout") => conn = NoConn

\* C7 as stated: a Logout entered while logged closes the endpoint held and
\* leaves the Client not logged and without endpoint; a Logout entered while not
\* logged changes nothing and closes nothing.
C7_LogoutClosesOnce ==
    [][\A t \in Callers :
          Enters(t, "Logout") =>
              IF logged
              THEN /\ epState'[conn] = "closed"
                   /\ ~logged' /\ conn' = NoConn
                   /\ Cardinality(Calls(io'[t], "close")) = 1
              ELSE /\ UNCHANGED <<conn, logged, epState>>
                   /\ io'[t] = <<>>]_vars

\* C8: logged turns false only in a Logout; SetActivity and ClearActivity leave
\* conn, logged and the endpoints as they are in every step, whether the send
\* succeeds or fails, write at most one frame, of opcode 1, and never read.
C8_ActivityKeepsSession ==
    [][/\ (logged /\ ~logged') => \E t \in Callers : Enters(t, "Logout")
       /\ \A t \in Callers :
            (op'[t] \in {"SetActivity", "ClearActivity"} /\ cpc'[t] # cpc[t] /\ cpc[t] # "done") =>
                /\ UNCHANGED <<conn, logged, epState>>
                /\ Cardinality(Calls(io'[t], "write_header")) <= 1
                /\ Cardinality(Calls(io'[t], "write_payload")) <= 1
                /\ \A i \in 1..Len(io'[t]) :
                     io'[t][i].k \in {"write_header", "write_payload"} /\ io'[t][i].opcode = 1
                /\ cpc'[t] \in {"send_header", "send_payload", "done"}]_vars

\* C8's case: a SetActivity and a ClearActivity both failed in send and the
\* Client is still logged, on the same open connection.
C8_Witness ==
    /\ last.op = "SetActivity" /\ last.res = "IOError"
    /\ op[Caller] = "ClearActivity" /\ cpc[Caller] = "done" /\ res[Caller] = "IOError"
    /\ Len(io[Caller]) = 2
    /\ logged /\ epState[conn] = "open"

\* ------------------------------------------------------------- the encoder

\* Any Activity of the bounded set is handed to SetActivity.
InitEnc ==
    /\ InitState
    /\ activity \in {Ptr(a) : a \in Activity}
    /\ payload = Nil
    /\ PureIdle

\* SetActivity builds and marshals the activity object (lines 155 to 190).
Encode ==
    /\ payload = Nil
    /\ payload' = Ptr(EncodeActivity(Deref(activity)))
    /\ UNCHANGED <<clientVars, envVars, callVars, bridgeVars, activity, pureVars, mainVars>>

NextEnc == Encode

SpecEnc == InitEnc /\ [][NextEnc]_vars

\* Object obj has key k.
HasKey(obj, k) == k \in DOMAIN obj

\* C9: the activity object holds details, state, and inside assets large_image,
\* large_text, small_image and small_text exactly when the Activity's string is
\* not empty, with that string as the value; none is held with the value "".
C9_StringKeysIffNonEmpty ==
    payload # Nil =>
        LET a == Deref(activity)
            p == Deref(payload)
            top == << <<"details", a.Details>>, <<"state", a.State>> >>
            img == << <<"large_image", a.LargeImage>>, <<"large_text", a.LargeText>>,
                      <<"small_image", a.SmallImage>>, <<"small_text", a.SmallText>> >>
        IN  /\ \A i \in 1..2 :
                 /\ HasKey(p, top[i][1]) <=> top[i][2] # ""
                 /\ HasKey(p, top[i][1]) => p[top[i][1]] = top[i][2]
            /\ HasKey(p, "assets")
            /\ \A i \in 1..4 :
                 /\ HasKey(p["assets"], img[i][1]) <=> img[i][2] # ""
                 /\ HasKey(p["assets"], img[i][1]) => p["assets"][img[i][1]] = img[i][2]

\* C9's case: an Activity with some strings empty and some not has been encoded.
C9_Witness ==
    /\ payload # Nil
    /\ Deref(activity).Details = "" /\ Deref(activity).State = "s"
    /\ Deref(activity).LargeImage = "s" /\ Deref(activity).SmallText = ""
    /\ HasKey(Deref(payload), "state") /\ ~HasKey(Deref(payload), "details")

\* C10 as stated: the activity object holds timestamps exactly when the Activity
\* has a Start or an End instant (so not when Timestamps is supplied with both
\* unset); inside it start and end are held exactly when that instant is set,
\* with the instant's milliseconds since the epoch as the value.
C10_TimestampsIffInstant ==
    payload # Nil =>
        LET a == Deref(activity)
            p == Deref(payload)
            hasStart == a.Timestamps # Nil /\ Deref(a.Timestamps).Start # Nil
            hasEnd == a.Timestamps # Nil /\ Deref(a.Timestamps).End # Nil
        IN  /\ HasKey(p, "timestamps") <=> (hasStart \/ hasEnd)
            /\ HasKey(p, "timestamps") =>
                 /\ HasKey(p["timestamps"], "start") <=> hasStart
                 /\ HasKey(p["timestamps"], "end") <=> hasEnd
                 /\ hasStart => p["timestamps"]["start"] * MicrosPerMilli
                                   \in (Deref(Deref(a.Timestamps).Start) - MicrosPerMilli + 1)
                                        .. Deref(Deref(a.Timestamps).Start)
                 /\ hasEnd => p["timestamps"]["end"] * MicrosPerMilli
                                   \in (Deref(Deref(a.Timestamps).End) - MicrosPerMilli + 1)
                                        .. Deref(Deref(a.Timestamps).End)

\* C11: when the four image and text strings of an Activity are all empty, the
\* activity object holds no "assets" key at all, not an empty object.
C11_NoAssetsWhenAllEmpty ==
    payload # Nil =>
        LET a == Deref(activity)
        IN  (a.LargeImage = "" /\ a.LargeText = "" /\ a.SmallImage = "" /\ a.SmallText = "")
                => ~HasKey(Deref(payload), "assets")

\* C12: the "buttons" list has the length and the order of Activity.Buttons,
\* each entry carrying its button's label and url unchanged (an empty one is
\* left out of the entry, as every empty string is); the key is absent exactly
\* when the Activity has no button.
C12_ButtonsPassThrough ==
    payload # Nil =>
        LET b == Deref(activity).Buttons
            p == Deref(payload)
        IN  /\ HasKey(p, "buttons") <=> Len(b) > 0
            /\ HasKey(p, "buttons") =>
                 /\ Len(p["buttons"]) = Len(b)
                 /\ \A i \in 1..Len(b) :
                      /\ HasKey(p["buttons"][i], "label") <=> b[i].Label # ""
                      /\ HasKey(p["buttons"][i], "label") => p["buttons"][i]["label"] = b[i].Label
                      /\ HasKey(p["buttons"][i], "url") <=> b[i].Url # ""
                      /\ HasKey(p["buttons"][i], "url") => p["buttons"][i]["url"] = b[i].Url

\* C12's case: an Activity with two different buttons has been encoded.
C12_Witness ==
    /\ payload # Nil
    /\ Len(Deref(activity).Buttons) = 2
    /\ Deref(activity).Buttons[1].Label # Deref(activity).Buttons[2].Label
    /\ Deref(activity).Buttons[1].Url # Deref(activity).Buttons[2].Url
    /\ Len(Deref(payload)["buttons"]) = 2

\* The activity kinds client.go declares.
DeclaredTypes == {ActivityTypePlaying, ActivityTypeStreaming, ActivityTypeListening,
                  ActivityTypeWatching, ActivityTypeCompeting}

\* C13 as stated: the activity object always holds "type", and its value is one
\* of the declared codes 0, 1, 2, 3, 5 for any Activity handed to SetActivity.
C13_Original ==
    payload # Nil =>
        /\ HasKey(Deref(payload), "type")
        /\ Deref(payload)["type"] \in DeclaredTypes

\* C13: the activity object always holds "type", also for Playing (0), and its
\* value is Activity.Type as the caller set it; it is one of the declared codes
\* exactly when the caller passed one of them.
C13_TypeAlwaysEmitted ==
    payload # Nil =>
        /\ HasKey(Deref(payload), "type")
        /\ Deref(payload)["type"] = Deref(activity).Type
        /\ Deref(payload)["type"] \in DeclaredTypes <=> Deref(activity).Type \in DeclaredTypes

\* C13's case: an Activity of kind Playing has been encoded.
C13_Witness ==
    /\ payload # Nil
    /\ Deref(activity).Type = ActivityTypePlaying
    /\ HasKey(Deref(payload), "type")

\* ------------------------------------------- two callers of the bridge

BridgeCallStep ==
    /\ \E t \in Callers : BridgeCall(t)
    /\ UNCHANGED mainVars

LockStep ==
    /\ \E t \in Callers : Lock(t)
    /\ UNCHANGED mainVars

ConnectBodyStep ==
    /\ \E t \in Callers : ConnectBody(t)
    /\ UNCHANGED mainVars

ConnectRetStep ==
    /\ \E t \in Callers : ConnectRet(t)
    /\ UNCHANGED mainVars

DisconnectBodyStep ==
    /\ \E t \in Callers : DisconnectBody(t)
    /\ UNCHANGED mainVars

DisconnectRetStep ==
    /\ \E t \in Callers : DisconnectRet(t)
    /\ UNCHANGED mainVars

ClearPresenceBodyStep ==
    /\ \E t \in Callers : ClearPresenceBody(t)
    /\ UNCHANGED mainVars

ClearPresenceRetStep ==
    /\ \E t \in Callers : ClearPresenceRet(t)
    /\ UNCHANGED mainVars

UpdatePresenceBodyStep ==
    /\ \E t \in Callers : UpdatePresenceBody(t)
    /\ UNCHANGED mainVars

UpdatePresenceRetStep ==
    /\ \E t \in Callers : UpdatePresenceRet(t)
    /\ UNCHANGED mainVars

UnlockStep ==
    /\ \E t \in Callers : Unlock(t)
    /\ UNCHANGED mainVars

NextConc ==
    \/ BridgeCallStep
    \/ LockStep
    \/ ConnectBodyStep
    \/ ConnectRetStep
    \/ DisconnectBodyStep
    \/ DisconnectRetStep
    \/ ClearPresenceBodyStep
    \/ ClearPresenceRetStep
    \/ UpdatePresenceBodyStep
    \/ UpdatePresenceRetStep
    \/ UnlockStep
    \/ SendHeaderStep
    \/ SendPayloadStep
    \/ RecvHeaderStep
    \/ RecvPayloadStep

SpecConc == Init /\ [][NextConc]_vars

\* The callers inside a client operation.
InClient == {t \in Callers : cpc[t] # "idle"}

\* C4: with the ticker's and the signal's caller driving the Bridge at once, at
\* most one caller is inside Login, Logout, SetActivity or ClearActivity at any
\* time, that caller holds b.mu, and no write has landed between the header
\* and the payload of another caller's frame.
C4_OperationsNeverOverlap ==
    /\ Cardinality(InClient) <= 1
    /\ \A t \in InClient : mu = t
    /\ ~torn

\* C4's case: one caller is between the two writes of its frame while the other
\* waits in Lock.
C4_Witness ==
    \E t \in Callers : \E u \in Callers \ {t} :
        /\ cpc[t] = "send_payload" /\ hdrBy[conn] = t
        /\ bpc[u] = "lock"

\* ---------------------------------------------------------------- framing

\* Longest payload built from FrameBytes.
MaxFrameLen == 2

\* len(header) in send and receive
HeaderLen == 8

\* Values of one byte on the wire.
FrameBytes == {0, 255}

\* A payload long enough for its length to need the second header byte.
LongPayload == [i \in 1..300 |-> i % 256]

\* Payloads handed to send: empty, one byte, many bytes.
FramePayloads == SeqsUpTo(FrameBytes, MaxFrameLen) \cup {LongPayload}

\* Opcodes handed to send: values that fill one, two, three and four of the
\* four header bytes.
FrameOpcodes == {0, 1, 255, 256, 65537, 16777219}

\* The first n elements of s.
Take(s, n) == SubSeq(s, 1, n)

\* s without its first n elements.
Drop(s, n) == SubSeq(s, n + 1, Len(s))

\* A []byte of k zero bytes, as make([]byte, k) returns it.
Zeros(k) == [i \in 1..k |-> 0]

\* Most significant byte first.
PutUint32_BigEndian(v) ==
    <<(v \div 16777216) % 256, (v \div 65536) % 256, (v \div 256) % 256, v % 256>>

\* binary.LittleEndian.PutUint32
PutUint32(v) ==
    <<v % 256, (v \div 256) % 256, (v \div 65536) % 256, (v \div 16777216) % 256>>

\* binary.LittleEndian.Uint32
Uint32(b) == b[1] + 256 * b[2] + 65536 * b[3] + 16777216 * b[4]

\* The header send builds: the opcode, then len(payload).
FrameHeader(opcode, pl) == PutUint32(opcode) \o PutUint32(Len(pl))

\* Byte counts a call that moves up to m bytes may report: every count for a
\* header-sized call, the two ends and one short of the end for a longer one.
Counts(m) == IF m <= HeaderLen THEN 1..m ELSE {1, m - 1, m}

\* What conn.Write(buf) with len(buf) = k may return: all k bytes and no error,
\* or an error after none or all but one of them. A Write that returns n < k
\* returns an error.
WriteResults(k) ==
    {[n |-> k, err |-> FALSE]} \cup {[n |-> n, err |-> TRUE] : n \in {0} \cup ({k - 1} \cap Nat)}

\* What conn.Read(buf) with len(buf) = k may return when avail bytes are on
\* their way: an error, or at least one and at most k of the bytes that have
\* arrived and no error.
ReadResults(k, avail) ==
    {[n |-> 0, err |-> TRUE]}
        \cup {[n |-> n, err |-> FALSE] :
                n \in IF k = 0 THEN {0}
                      ELSE IF k < avail THEN Counts(k) ELSE Counts(avail)}

\* buf after conn.Read(buf) stored the first n bytes of stream in it.
ReadInto(buf, stream, n) ==
    [i \in 1..Len(buf) |-> IF i <= n THEN stream[i] ELSE buf[i]]

\* `if _, err := ...; err != nil`: the byte count is dropped, the error decides.
IOFailed(r) == r.err

\* fr before send is called.
FrameStart(opcode, pl) ==
    [pc |-> "write_header", opcode |-> opcode, payload |-> pl, wire |-> <<>>,
     sendErr |-> FALSE, hdrN |-> 0, header |-> <<>>, dataN |-> 0, want |-> 0,
     data |-> <<>>, recvErr |-> FALSE]

InitFrame ==
    /\ InitState
    /\ activity = Nil
    /\ payload = Nil
    /\ fr \in {FrameStart(o, pl) : o \in FrameOpcodes, pl \in FramePayloads}
    /\ loc = Nil
    /\ nc = Nil

FrameUnchanged ==
    UNCHANGED <<clientVars, envVars, callVars, bridgeVars, encVars, loc, nc, mainVars>>

\* send: c.conn.Write(header)
FrameWriteHeader ==
    /\ fr.pc = "write_header"
    /\ \E r \in WriteResults(HeaderLen) :
         fr' = [fr EXCEPT !.wire = Take(FrameHeader(fr.opcode, fr.payload), r.n),
                          !.sendErr = IOFailed(r),
                          !.pc = IF IOFailed(r) THEN "done" ELSE "write_payload"]
    /\ FrameUnchanged

\* send: c.conn.Write(payload)
FrameWritePayload ==
    /\ fr.pc = "write_payload"
    /\ \E r \in WriteResults(Len(fr.payload)) :
         fr' = [fr EXCEPT !.wire = fr.wire \o Take(fr.payload, r.n),
                          !.sendErr = IOFailed(r),
                          !.pc = IF IOFailed(r) THEN "done" ELSE "read_header"]
    /\ FrameUnchanged

\* receive, reading the bytes send wrote: c.conn.Read(header) and the decoding
\* of the length.
FrameReadHeader ==
    /\ fr.pc = "read_header"
    /\ \E r \in ReadResults(HeaderLen, Len(fr.wire)) :
         LET header == ReadInto(Zeros(HeaderLen), fr.wire, r.n)
         IN  fr' = [fr EXCEPT !.hdrN = r.n,
                              !.header = header,
                              !.want = Uint32(Drop(header, 4)),
                              !.recvErr = IOFailed(r),
                              !.pc = IF IOFailed(r) THEN "done" ELSE "read_payload"]
    /\ FrameUnchanged

\* receive: data := make([]byte, length); c.conn.Read(data); return data, nil
FrameReadPayload ==
    /\ fr.pc = "read_payload"
    /\ \E r \in ReadResults(fr.want, Len(fr.wire) - fr.hdrN) :
         fr' = [fr EXCEPT !.dataN = r.n,
                          !.data = IF IOFailed(r) THEN <<>>
                                   ELSE ReadInto(Zeros(fr.want), Drop(fr.wire, fr.hdrN), r.n),
                          !.recvErr = IOFailed(r),
                          !.pc = "done"]
    /\ FrameUnchanged

NextFrame ==
    \/ FrameWriteHeader
    \/ FrameWritePayload
    \/ FrameReadHeader
    \/ FrameReadPayload

SpecFrame == InitFrame /\ [][NextFrame]_vars

\* send returned nil.
Sent == fr.pc \in {"read_header", "read_payload", "done"} /\ ~fr.sendErr

\* receive returned a payload.
Received == fr.pc = "done" /\ ~fr.sendErr /\ ~fr.recvErr

\* The stream delivered to each Read all it asked for.
FullDelivery == fr.hdrN = HeaderLen /\ fr.dataN = Len(fr.payload)

\* What receive returns when it reads stream and every Read is filled.
ReceiveFull(stream) ==
    SubSeq(stream, HeaderLen + 1, HeaderLen + Uint32(SubSeq(stream, 5, HeaderLen)))

\* C14 as stated: what receive returns from the bytes of send(opcode, payload)
\* gives back exactly the payload and exactly the opcode.
C14_Original ==
    (Received /\ FullDelivery) =>
        /\ fr.data = fr.payload
        /\ \A o \in FrameOpcodes :
             ReceiveFull(FrameHeader(o, fr.payload) \o fr.payload) = fr.data => o = fr.opcode

\* C14: send writes the opcode as 4 little-endian bytes, the payload length as
\* 4 little-endian bytes, then the payload; receive on a stream that delivers
\* these bytes to its two reads returns exactly the payload. The header it
\* read holds the opcode, which receive does not return.
C14_FrameRoundTrip ==
    /\ Sent =>
         /\ Len(fr.wire) = HeaderLen + Len(fr.payload)
         /\ \A i \in 1..4 :
              /\ fr.wire[i] = (fr.opcode \div (256 ^ (i - 1))) % 256
              /\ fr.wire[4 + i] = (Len(fr.payload) \div (256 ^ (i - 1))) % 256
         /\ Drop(fr.wire, HeaderLen) = fr.payload
    /\ (Received /\ FullDelivery) =>
         /\ fr.data = fr.payload
         /\ Uint32(Take(fr.header, 4)) = fr.opcode

\* C14's case: a frame with a payload of many bytes was sent and read back.
C14_Witness ==
    /\ Received /\ FullDelivery
    /\ fr.payload = LongPayload
    /\ fr.opcode = 65537
    /\ fr.data = LongPayload

\* C15: receive returns a payload only after its first Read delivered 8 bytes
\* and its second exactly the announced length, a short or failed Read makes
\* it return an error, and a short or failed Write makes send return an error.
C15_ShortIOIsError ==
    /\ Received => (fr.hdrN = HeaderLen /\ fr.dataN = fr.want /\ fr.want = Len(fr.payload))
    /\ (fr.pc = "done" /\ Len(fr.wire) < HeaderLen + Len(fr.payload)) => fr.sendErr

\* ----------------------------------------------------------- socket locator

\* Most sockets that accept a connection at once.
MaxListeners == 1

\* `i < 10`: the indices openSocket tries in each directory.
NumSlots == 10

\* Values of an environment variable: unset or empty, or a directory.
EnvDirs == {"", "/tmp", "/run/user/1"}

\* The environment openSocket reads.
Environments == [XDG_RUNTIME_DIR : EnvDirs, TMPDIR : EnvDirs, TMP : EnvDirs, TEMP : EnvDirs]

\* fmt.Sprintf("%s/discord-ipc-%d", tmpDir, i), kept as its two arguments.
SocketPath(tmpDir, i) == <<tmpDir, i>>

\* The paths a socket may listen at, an empty directory name included.
SocketPaths == {SocketPath(d, i) : d \in EnvDirs, i \in 0..(NumSlots - 1)}

\* The sets of paths at which net.Dial succeeds.
RECURSIVE SetsUpTo(_, _)
SetsUpTo(S, n) ==
    IF n = 0 THEN {{}}
    ELSE LET smaller == SetsUpTo(S, n - 1)
         IN  smaller \cup {L \cup {x} : L \in smaller, x \in S}

ListenerSets == SetsUpTo(SocketPaths, MaxListeners)

\* tmpDirs
TmpDirs(env) == <<env.XDG_RUNTIME_DIR, env.TMPDIR, env.TMP, env.TEMP, "/tmp">>

\* A loop that tries every entry of tmpDirs.
SkipDir_Never(tmpDir) == FALSE

\* `if tmpDir == "" { continue }`
SkipDir(tmpDir) == tmpDir = ""

\* net.Dial("unix", path) returned no error.
DialOk(path, listening) == path \in listening

\* The inner loop of openSocket from index i on: the paths dialled are added to
\* probes; the loop returns at the first Dial that succeeds.
RECURSIVE ProbeSlots(_, _, _, _)
ProbeSlots(tmpDir, i, listening, probes) ==
    IF i >= NumSlots THEN [found |-> FALSE, probes |-> probes]
    ELSE IF DialOk(SocketPath(tmpDir, i), listening)
         THEN [found |-> TRUE, probes |-> Append(probes, SocketPath(tmpDir, i))]
         ELSE ProbeSlots(tmpDir, i + 1, listening, Append(probes, SocketPath(tmpDir, i)))

\* The outer loop of openSocket from entry k of tmpDirs on.
RECURSIVE ProbeDirs(_, _, _, _)
ProbeDirs(tmpDirs, k, listening, probes) ==
    IF k > Len(tmpDirs) THEN [found |-> FALSE, probes |-> probes]
    ELSE IF SkipDir(tmpDirs[k]) THEN ProbeDirs(tmpDirs, k + 1, listening, probes)
         ELSE LET r == ProbeSlots(tmpDirs[k], 0, listening, probes)
              IN  IF r.found THEN r
                  ELSE ProbeDirs(tmpDirs, k + 1, listening, r.probes)

\* openSocket(): the paths it dialled in order, and whether it returned a
\* connection (to the last of them) or the "socket not found" error.
openSocket(env, listening) == ProbeDirs(TmpDirs(env), 1, listening, <<>>)

InitLoc ==
    /\ InitState
    /\ activity = Nil
    /\ payload = Nil
    /\ fr = Nil
    /\ loc \in [pc : {"call"}, env : Environments, listening : ListenerSets,
                found : {FALSE}, probes : {<<>>}]
    /\ nc = Nil

\* One call of openSocket.
Locate ==
    /\ loc.pc = "call"
    /\ LET r == openSocket(loc.env, loc.listening)
       IN  loc' = [loc EXCEPT !.pc = "done", !.found = r.found, !.probes = r.probes]
    /\ UNCHANGED <<clientVars, envVars, callVars, bridgeVars, encVars, fr, nc, mainVars>>

NextLoc == Locate

SpecLoc == InitLoc /\ [][NextLoc]_vars

\* The directories in the order of the claim, the empty ones left out.
SearchDirs ==
    SelectSeq(<<loc.env.XDG_RUNTIME_DIR, loc.env.TMPDIR, loc.env.TMP, loc.env.TEMP, "/tmp">>,
              LAMBDA d : d # "")

\* The (directory, index) pairs in the order of the claim: directory by
\* directory, indices 0 to 9 ascending within each.
Candidates ==
    [j \in 1..(10 * Len(SearchDirs)) |-> <<SearchDirs[((j - 1) \div 10) + 1], (j - 1) % 10>>]

\* C16: openSocket dials the candidates in order and stops at the first that
\* accepts, which it returns; it fails exactly when it dialled every candidate
\* and each refused.
C16_ProbeOrder ==
    loc.pc = "done" =>
        /\ Len(loc.probes) <= Len(Candidates)
        /\ \A j \in 1..Len(loc.probes) : loc.probes[j] = Candidates[j]
        /\ \A j \in 1..(Len(loc.probes) - 1) : loc.probes[j] \notin loc.listening
        /\ loc.found => /\ Len(loc.probes) > 0
                        /\ loc.probes[Len(loc.probes)] \in loc.listening
        /\ ~loc.found <=> /\ Len(loc.probes) = Len(Candidates)
                          /\ \A j \in 1..Len(Candidates) : Candidates[j] \notin loc.listening

\* C16's case: with an empty variable skipped and the first directory refusing
\* all ten indices, openSocket connected in a later directory.
C16_Witness ==
    /\ loc.pc = "done"
    /\ loc.found
    /\ loc.env.XDG_RUNTIME_DIR = ""
    /\ Len(loc.probes) > NumSlots + 1

\* -------------------------------------------------------------------- nonce

\* len(buf) in nonce
NonceLen == 16

\* Values of buf[6] and buf[8] after rand.Read: every high nibble, with the
\* low nibble all zeros or all ones.
KeyBytes == {16 * h + l : h \in 0..15, l \in {0, 15}}

\* Values of the other bytes of buf.
FillBytes == {0, 171, 255}

\* buf after rand.Read(buf); Go's buf[6] and buf[8] are elements 7 and 9 here.
RandomBufs ==
    {[i \in 1..NonceLen |-> IF i = 7 THEN x ELSE IF i = 9 THEN y ELSE z] :
        x \in KeyBytes, y \in KeyBytes, z \in FillBytes}

\* The digits the verb %x prints.
HexDigits == <<"0", "1", "2", "3", "4", "5", "6", "7", "8", "9", "a", "b", "c", "d", "e", "f">>

\* fmt's %x on a []byte: two lowercase digits for each byte.
RECURSIVE Hex(_)
Hex(bytes) ==
    IF bytes = <<>> THEN <<>>
    ELSE <<HexDigits[(Head(bytes) \div 16) + 1], HexDigits[(Head(bytes) % 16) + 1]>>
            \o Hex(Tail(bytes))

\* buf[6] = (buf[6] & 0x0f) | 0x40; no other byte is changed.
SetVersion(buf) == [buf EXCEPT ![7] = (buf[7] % 16) + 64]

\* fmt.Sprintf("%x-%x-%x-%x-%x", buf[0:4], buf[4:6], buf[6:8], buf[8:10], buf[10:])
FormatNonce(buf) ==
    Hex(SubSeq(buf, 1, 4)) \o <<"-">> \o Hex(SubSeq(buf, 5, 6)) \o <<"-">>
        \o Hex(SubSeq(buf, 7, 8)) \o <<"-">> \o Hex(SubSeq(buf, 9, 10)) \o <<"-">>
        \o Hex(SubSeq(buf, 11, NonceLen))

InitNonce ==
    /\ InitState
    /\ activity = Nil
    /\ payload = Nil
    /\ fr = Nil
    /\ loc = Nil
    /\ nc \in [pc : {"call"}, buf : RandomBufs, out : {<<>>}]

\* One call of nonce(), given the bytes rand.Read produced.
Nonce ==
    /\ nc.pc = "call"
    /\ nc' = [nc EXCEPT !.pc = "done", !.out = FormatNonce(SetVersion(nc.buf))]
    /\ UNCHANGED <<clientVars, envVars, callVars, bridgeVars, encVars, fr, loc, mainVars>>

NextNonce == Nonce

SpecNonce == InitNonce /\ [][NextNonce]_vars

\* C17: the nonce is five groups of lowercase hex digits of lengths 8, 4, 4, 4
\* and 12 joined by hyphens, the third group begins with 4 and the fourth with
\* 8, 9, a or b.
C17_NonceShape ==
    nc.pc = "done" =>
        /\ Len(nc.out) = 36
        /\ \A i \in 1..36 :
             IF i \in {9, 14, 19, 24} THEN nc.out[i] = "-"
             ELSE nc.out[i] \in {"0", "1", "2", "3", "4", "5", "6", "7", "8", "9",
                                 "a", "b", "c", "d", "e", "f"}
        /\ nc.out[15] = "4"
        /\ nc.out[20] \in {"8", "9", "a", "b"}

\* ---------------------------------------------------------------- main loop

\* The caller names of the one main goroutine: "ticker" while it runs
\* pollAndUpdate, "signal" while it runs the shutdown case.
Poller == "ticker"
Cleaner == "signal"

\* A Track.Equals that also compares the position.
Equals_WithPosition(t, other) ==
    /\ t.Name = other.Name
    /\ t.Artist = other.Artist
    /\ t.Album = other.Album
    /\ t.PlayerPosition = other.PlayerPosition

\* Track.Equals
Equals(t, other) ==
    /\ t.Name = other.Name
    /\ t.Artist = other.Artist
    /\ t.Album = other.Album

\* Bridge.ShouldUpdate
ShouldUpdate(track, state) ==
    IF state # lastState THEN TRUE
    ELSE IF lastTrack = Nil THEN TRUE
    ELSE ~Equals(track, Deref(lastTrack))

\* What GetPlayerState returns: a state, or Nil with an error.
PlayerStateResults == {Nil} \cup {Ptr(s) : s \in {StateNotRunning, StatePaused, StatePlaying}}

\* What GetCurrentTrack returns: a track, or Nil with an error.
TrackResults == {Nil} \cup {Ptr(t) : t \in Tracks}

\* What a poll that reached the switch observed.
Observation(state, track) == Ptr([state |-> state, track |-> track])

\* The step calls no Bridge method.
NoInvoke == UNCHANGED <<clientVars, envVars, callVars, bridgeVars, encVars, pureVars>>

\* A handler running on a goroutine of its own, whatever main is doing.
AtSelect_Anytime == TRUE

\* The main goroutine is blocked in the select of the event loop.
AtSelect == mpc = "select"

\* main: bridge.Connect() before the event loop.
MainStart ==
    /\ mpc = "init"
    /\ Invoke(Poller, "Connect", NoTrack)
    /\ mpc' = "init_connect"
    /\ UNCHANGED <<spc, sig, lastTrack, lastState, pstate, prevObs, sdConn, sdLog, fetch, got, plog, failed>>

\* main: the initial Connect returned, its error only logged; signal.Notify,
\* the ticker, and the call of the initial pollAndUpdate.
InitialConnectReturns ==
    /\ mpc = "init_connect"
    /\ Unlock(Poller)
    /\ mpc' = "poll"
    /\ UNCHANGED <<spc, sig, lastTrack, lastState, pstate, prevObs, sdConn, sdLog, fetch, got, plog, failed>>

\* A SIGINT or SIGTERM is delivered to the channel of capacity 1 that
\* signal.Notify registered; one that finds it full is dropped.
SignalArrives ==
    /\ mpc \notin {"init", "init_connect"}
    /\ spc # "exited"
    /\ ~sig
    /\ sig' = TRUE
    /\ NoInvoke
    /\ UNCHANGED <<mpc, spc, lastTrack, lastState, pstate, prevObs, sdConn, sdLog, fetch, got, plog, failed>>

\* select: case <-ticker.C
Tick ==
    /\ mpc = "select"
    /\ spc = "idle"
    /\ mpc' = "poll"
    /\ NoInvoke
    /\ UNCHANGED <<spc, sig, lastTrack, lastState, pstate, prevObs, sdConn, sdLog, fetch, got, plog, failed>>

\* pollAndUpdate: `if !bridge.connected { bridge.Connect() ... }`
PollEnter ==
    /\ mpc = "poll"
    /\ IF ~connected
       THEN Invoke(Poller, "Connect", NoTrack) /\ mpc' = "poll_connect"
       ELSE NoInvoke /\ mpc' = "poll_state"
    /\ UNCHANGED <<spc, sig, lastTrack, lastState, pstate, prevObs, sdConn, sdLog, fetch, got, plog, failed>>

\* pollAndUpdate: Connect returned; on an error the poll returns.
PollConnectReturns ==
    /\ mpc = "poll_connect"
    /\ Unlock(Poller)
    /\ mpc' = (IF connected THEN "poll_state" ELSE "select")
    /\ UNCHANGED <<spc, sig, lastTrack, lastState, pstate, prevObs, sdConn, sdLog, fetch, got, plog, failed>>

\* pollAndUpdate: GetPlayerState and the switch; the cases StateNotRunning and
\* StatePaused up to their call of ClearPresence.
PollState ==
    /\ mpc = "poll_state"
    /\ \E r \in PlayerStateResults :
         IF r = Nil
         THEN NoInvoke /\ mpc' = "select" /\ UNCHANGED <<pstate, prevObs>>
         ELSE IF Deref(r) = StatePlaying
         THEN NoInvoke /\ mpc' = "poll_track" /\ UNCHANGED <<pstate, prevObs>>
         ELSE IF lastState # Deref(r)
         THEN /\ Invoke(Poller, "ClearPresence", NoTrack)
              /\ mpc' = "poll_clear"
              /\ pstate' = r
              /\ UNCHANGED prevObs
         ELSE /\ NoInvoke
              /\ mpc' = "select"
              /\ prevObs' = Observation(Deref(r), Nil)
              /\ UNCHANGED pstate
    /\ UNCHANGED <<spc, sig, lastTrack, lastState, sdConn, sdLog, fetch, got, plog, failed>>

\* A case StatePaused that forgets the track as well.
ResetsTrack_Always(state) == TRUE

\* `bridge.lastTrack = nil` stands in the case StateNotRunning only.
ResetsTrack(state) == state = StateNotRunning

\* pollAndUpdate: ClearPresence returned; lastState is set, and lastTrack is
\* reset when the app is not running.
PollClearReturns ==
    /\ mpc = "poll_clear"
    /\ Unlock(Poller)
    /\ lastState' = Deref(pstate)
    /\ lastTrack' = (IF ResetsTrack(Deref(pstate)) THEN Nil ELSE lastTrack)
    /\ prevObs' = Observation(Deref(pstate), Nil)
    /\ pstate' = Nil
    /\ plog' = <<>>
    /\ failed' = Nil
    /\ mpc' = "select"
    /\ UNCHANGED <<spc, sig, sdConn, sdLog, fetch, got>>

\* pollAndUpdate, case StatePlaying: GetCurrentTrack, ShouldUpdate and the call
\* of UpdatePresence.
PollTrack ==
    /\ mpc = "poll_track"
    /\ \E r \in TrackResults :
         IF r = Nil
         THEN NoInvoke /\ mpc' = "select" /\ UNCHANGED prevObs
         ELSE IF ShouldUpdate(Deref(r), StatePlaying)
         THEN Invoke(Poller, "UpdatePresence", Deref(r)) /\ mpc' = "poll_update"
                /\ UNCHANGED prevObs
         ELSE NoInvoke /\ mpc' = "select" /\ prevObs' = Observation(StatePlaying, r)
    /\ UNCHANGED <<spc, sig, lastTrack, lastState, pstate, sdConn, sdLog, fetch, got, plog, failed>>

\* pollAndUpdate: UpdatePresence returned; lastTrack and lastState are set.
PollUpdateReturns ==
    /\ mpc = "poll_update"
    /\ Unlock(Poller)
    /\ lastTrack' = Ptr(barg[Poller])
    /\ lastState' = StatePlaying
    /\ prevObs' = Observation(StatePlaying, Ptr(barg[Poller]))
    /\ fetch' = "none"
    /\ plog' = <<>>
    /\ failed' = (IF plog = <<"set_failed">> THEN Ptr(barg[Poller]) ELSE Nil)
    /\ mpc' = "select"
    /\ UNCHANGED <<spc, sig, pstate, sdConn, sdLog, got>>

\* select: case sig := <-shutdown, up to the call of ClearPresence.
ShutdownBegin ==
    /\ AtSelect
    /\ spc = "idle"
    /\ sig
    /\ sig' = FALSE
    /\ Invoke(Cleaner, "ClearPresence", NoTrack)
    /\ spc' = "clear"
    /\ sdConn' = connected
    /\ UNCHANGED <<mpc, lastTrack, lastState, pstate, prevObs, sdLog, fetch, got, plog, failed>>

\* The shutdown case: ClearPresence returned.
ShutdownCleared ==
    /\ spc = "clear"
    /\ Unlock(Cleaner)
    /\ spc' = "cleared"
    /\ UNCHANGED <<mpc, sig, lastTrack, lastState, pstate, prevObs, sdConn, sdLog, fetch, got, plog, failed>>

\* The shutdown case: the call of Disconnect.
ShutdownDisconnect ==
    /\ spc = "cleared"
    /\ Invoke(Cleaner, "Disconnect", NoTrack)
    /\ spc' = "disconnect"
    /\ UNCHANGED <<mpc, sig, lastTrack, lastState, pstate, prevObs, sdConn, sdLog, fetch, got, plog, failed>>

\* The shutdown case: Disconnect returned, then os.Exit(0).
ShutdownExit ==
    /\ spc = "disconnect"
    /\ Unlock(Cleaner)
    /\ spc' = "exited"
    /\ sdLog' = Append(sdLog, "exit")
    /\ UNCHANGED <<mpc, sig, lastTrack, lastState, pstate, prevObs, sdConn, fetch, got, plog, failed>>

\* What the ClearActivity of caller t did, once it has returned: it wrote the
\* whole opcode-1 frame with a null activity, or one of the two writes failed,
\* or it wrote nothing.
ClearOutcome(t) ==
    IF frm[t] # CommandFrame(Nil) THEN "clear_skipped"
    ELSE IF io[t] = <<Event("write_header", "ok", 1), Event("write_payload", "ok", 1)>>
    THEN "clear_sent"
    ELSE IF Len(io[t]) > 0 THEN "clear_failed"
    ELSE "clear_skipped"

\* ClearPresence after ClearActivity returned, the shutdown case's logged.
MainClearPresenceRet ==
    /\ \E t \in Callers :
         /\ ClearPresenceRet(t)
         /\ sdLog' = IF t = Cleaner THEN Append(sdLog, ClearOutcome(t)) ELSE sdLog
         /\ plog' = IF t = Poller THEN Append(plog, ClearOutcome(t)) ELSE plog
    /\ UNCHANGED <<mpc, spc, sig, lastTrack, lastState, pstate, prevObs, sdConn, fetch, got, failed>>

\* Disconnect up to the return of Logout, the closing of an endpoint logged.
MainDisconnectBody ==
    /\ \E t \in Callers :
         /\ DisconnectBody(t)
         /\ sdLog' = IF epState' # epState THEN Append(sdLog, "close") ELSE sdLog
    /\ UNCHANGED <<mpc, spc, sig, lastTrack, lastState, pstate, prevObs, sdConn, fetch, got, plog, failed>>

\* UpdatePresence up to the call of SetActivity, the artwork lookup logged.
MainUpdatePresenceBody ==
    /\ \E t \in Callers :
         \E fetched \in Urls \cup {"cached", "error", "none"} :
           \E now \in Nows :
             /\ UpdatePresenceBodyWith(t, fetched, now)
             /\ fetch' = fetched
             /\ got' = IF fetched \in Urls
                       THEN [p \in DOMAIN got \cup {<<barg[t].Artist, barg[t].Album>>} |->
                               IF p = <<barg[t].Artist, barg[t].Album>> THEN fetched ELSE got[p]]
                       ELSE got
    /\ UNCHANGED <<mpc, spc, sig, lastTrack, lastState, pstate, prevObs, sdConn, sdLog, plog, failed>>

\* What the SetActivity of caller t did, once it has returned: it wrote the
\* whole opcode-1 frame, or one of the two writes failed, or it wrote nothing.
SetOutcome(t) ==
    IF io[t] = <<Event("write_header", "ok", 1), Event("write_payload", "ok", 1)>>
    THEN "set_sent"
    ELSE IF Len(io[t]) > 0 THEN "set_failed"
    ELSE "set_skipped"

\* UpdatePresence after SetActivity returned, the poll's logged.
MainUpdatePresenceRet ==
    /\ \E t \in Callers :
         /\ UpdatePresenceRet(t)
         /\ plog' = IF t = Poller THEN Append(plog, SetOutcome(t)) ELSE plog
    /\ UNCHANGED <<mpc, spc, sig, lastTrack, lastState, pstate, prevObs, sdConn, sdLog, fetch, got,
                   failed>>

\* The peer of the connection that Connect established closes its end.
PeerCloses ==
    /\ connected
    /\ logged
    /\ conn # NoConn
    /\ epState[conn] = "open"
    /\ peer[conn] = "live"
    /\ peer' = [peer EXCEPT ![conn] = "dead"]
    /\ UNCHANGED <<clientVars, epState, hdrBy, torn, callVars, bridgeVars, encVars, pureVars,
                   mainVars>>

\* The peer accepted the connection and took the handshake, and now neither
\* replies nor closes: Login's receive is waiting for a header ("mute").
PeerSilent ==
    /\ \E t \in Callers : op[t] = "Login" /\ cpc[t] = "recv_header"
    /\ conn # NoConn
    /\ epState[conn] = "open"
    /\ peer[conn] = "live"
    /\ peer' = [peer EXCEPT ![conn] = "mute"]
    /\ UNCHANGED <<clientVars, epState, hdrBy, torn, callVars, bridgeVars, encVars, pureVars,
                   mainVars>>

NextMain ==
    \/ MainStart
    \/ InitialConnectReturns
    \/ SignalArrives
    \/ Tick
    \/ PollEnter
    \/ PollConnectReturns
    \/ PollState
    \/ PollClearReturns
    \/ PollTrack
    \/ PollUpdateReturns
    \/ ShutdownBegin
    \/ ShutdownCleared
    \/ ShutdownDisconnect
    \/ ShutdownExit
    \/ LockStep
    \/ ConnectBodyStep
    \/ ConnectRetStep
    \/ MainDisconnectBody
    \/ DisconnectRetStep
    \/ ClearPresenceBodyStep
    \/ MainClearPresenceRet
    \/ MainUpdatePresenceBody
    \/ MainUpdatePresenceRet
    \/ PeerCloses
    \/ PeerSilent
    \/ SendHeaderStep
    \/ SendPayloadStep
    \/ RecvHeaderStep
    \/ RecvPayloadStep

SpecMain == Init /\ [][NextMain]_vars

\* C18: when the shutdown case runs with the bridge connected, the
\* ClearActivity frame (opcode 1, activity null) is written, or its write is
\* attempted and fails, before Logout closes the endpoint, the endpoint is
\* closed before os.Exit, and the shutdown case never runs while pollAndUpdate
\* or a Bridge method it called is in progress.
C18_ShutdownOrder ==
    /\ spc # "idle" =>
         /\ mpc = "select"
         /\ bpc[Poller] = "idle"
         /\ cpc[Poller] = "idle"
    /\ sdConn =>
         /\ Len(sdLog) <= 3
         /\ Len(sdLog) >= 1 => sdLog[1] \in {"clear_sent", "clear_failed"}
         /\ Len(sdLog) >= 2 => sdLog[2] = "close"
         /\ Len(sdLog) >= 3 => sdLog[3] = "exit"
         /\ spc = "exited" => (Len(sdLog) = 3 /\ conn = NoConn)

\* C18's case: a signal was handled with the bridge connected, and the process
\* has exited after sending the clear frame and closing the endpoint.
C18_Witness ==
    /\ spc = "exited"
    /\ sdConn
    /\ sdLog = <<"clear_sent", "close", "exit">>

\* Same name, artist and album, whatever the position.
SameTrack(a, b) == a.Name = b.Name /\ a.Artist = b.Artist /\ a.Album = b.Album

\* C19: a poll calls UpdatePresence, the only caller of SetActivity, only when
\* the state it observed differs from lastState or the track from lastTrack in
\* name, artist or album; so a poll that observes Playing with the track the
\* previous handled poll observed, at whatever position, sends no SetActivity.
C19_OncePerTrack ==
    [][/\ (cpc[Poller] # "idle" /\ op[Poller] = "SetActivity") => mpc = "poll_update"
       /\ (mpc = "poll_track" /\ mpc' = "poll_update") =>
            /\ \/ lastState # StatePlaying
               \/ lastTrack = Nil
               \/ ~SameTrack(Deref(lastTrack), barg'[Poller])
            /\ ~(/\ prevObs # Nil
                 /\ Deref(prevObs).state = StatePlaying
                 /\ SameTrack(Deref(Deref(prevObs).track), barg'[Poller]))]_vars

\* C19's case: after an update for a track, a later poll observed Playing with
\* the same track at another position and returned without an update.
C19_Witness ==
    /\ mpc = "select"
    /\ lastState = StatePlaying
    /\ lastTrack # Nil
    /\ prevObs # Nil
    /\ Deref(prevObs).state = StatePlaying
    /\ SameTrack(Deref(Deref(prevObs).track), Deref(lastTrack))
    /\ Deref(Deref(prevObs).track).PlayerPosition # Deref(lastTrack).PlayerPosition

\* C20: once a fetch for an (artist, album) pair has succeeded, every later
\* UpdatePresence for that pair fetches nothing and puts the stored URL in the
\* activity; a failed fetch leaves the cache as it was; an entry of the cache
\* is never removed or given another value.
C20_CacheKeepsArtwork ==
    [][/\ \A p \in DOMAIN got :
            /\ cacheKey(p[1], p[2]) \in DOMAIN cache
            /\ cache[cacheKey(p[1], p[2])] = got[p]
       /\ \A k \in DOMAIN cache : k \in DOMAIN cache' /\ cache'[k] = cache[k]
       /\ \A t \in Callers :
            (bpc[t] = "locked" /\ bm[t] = "UpdatePresence" /\ bpc'[t] = "client") =>
                /\ <<barg[t].Artist, barg[t].Album>> \in DOMAIN got =>
                     /\ fetch' = "cached"
                     /\ frm'[t] # NoFrame
                     /\ HasKey(frm'[t].payload.args.activity["assets"], "large_image")
                     /\ frm'[t].payload.args.activity["assets"]["large_image"]
                            = got[<<barg[t].Artist, barg[t].Album>>]
                /\ fetch' = "error" => cache' = cache
                /\ fetch' = "cached" => cache' = cache]_vars

\* C20's case: an UpdatePresence for a pair whose artwork an earlier
\* UpdatePresence fetched has taken the URL from the cache.
C20_Witness ==
    \E t \in Callers :
        /\ bpc[t] = "client" /\ bm[t] = "UpdatePresence"
        /\ <<barg[t].Artist, barg[t].Album>> \in DOMAIN got
        /\ fetch = "cached"

\* A poll that stands after `if !bridge.connected { ... }` found the bridge
\* connected or connected it, and a poll of a bridge that is not connected
\* calls Connect before anything else.
PollConnectsFirst ==
    /\ (mpc \in {"poll_state", "poll_clear", "poll_track", "poll_update"} => connected)
    /\ (mpc = "poll_connect" => bm[Poller] = "Connect")

\* The SetActivity of the latest update failed to send, and the poll that made
\* it is over.
UpdateFailed == failed # Nil /\ mpc \in {"select", "poll", "poll_state", "poll_track"}

\* C21: a failure is retried on the next poll. When the send of SetActivity
\* failed in a poll, the update is not recorded as done: a poll that observes
\* StatePlaying and the same track again is told by ShouldUpdate to update.
\* And a poll gets to the player and to the presence only with the bridge
\* connected, calling Connect first when it is not.
C21_FailedUpdateRetried ==
    /\ (UpdateFailed => ShouldUpdate(Deref(failed), StatePlaying))
    /\ PollConnectsFirst

\* The main goroutine is never suspended for good: the ticker keeps firing and
\* every call that can return does.
SpecMainLive == SpecMain /\ WF_vars(NextMain)

\* A SetActivity or ClearActivity of the poll returned the I/O error of a
\* write on the connection whose peer has closed.
DeadSendFailed ==
    /\ conn # NoConn
    /\ peer[conn] = "dead"
    /\ op[Poller] \in {"SetActivity", "ClearActivity"}
    /\ cpc[Poller] = "done"
    /\ res[Poller] = "IOError"

\* The poll is inside a Connect, and so a Login, made after the peer of a
\* connection closed.
Relogin ==
    /\ mpc = "poll_connect"
    /\ ~connected
    /\ \E e \in Endpoints : peer[e] = "dead"

\* A shutdown signal is pending or being handled.
Stopping == sig \/ spc # "idle"

\* C22: dead-connection recovery. Once a send of the poll has failed on the
\* connection whose peer closed, the poll loop eventually calls Login again,
\* unless the process is being shut down.
C22_DeadConnectionRecovered == DeadSendFailed ~> (Relogin \/ Stopping)

\* While the peer of the client's connection is closed, the bridge goes on
\* holding itself connected and the client logged in, up to Disconnect.
DeadStaysConnected ==
    (conn # NoConn /\ peer[conn] = "dead") => (connected /\ logged)

\* Login sent the handshake and waits in receive for the header of a reply
\* that the peer will never send.
Hung ==
    /\ conn # NoConn
    /\ epState[conn] = "open"
    /\ peer[conn] = "mute"
    /\ op[Poller] = "Login"
    /\ cpc[Poller] = "recv_header"

\* C23: the handshake receive has no timeout. Once Login waits for the reply
\* of a peer that took the handshake and stays silent, every step leaves it
\* waiting there: Login does not return, the client stays logged out and the
\* bridge not connected with its lock held, main stays inside Connect, and no
\* part of the shutdown case (ClearPresence, Disconnect, exit) runs, signal
\* or not.
C23_HandshakeHangs ==
    [][Hung => /\ Hung'
               /\ ~logged' /\ ~connected'
               /\ mu' = Poller
               /\ mpc' = mpc /\ mpc \in {"init_connect", "poll_connect"}
               /\ spc' = "idle" /\ sdLog' = <<>>
               /\ UNCHANGED <<callVars, bridgeVars, clientVars>>]_vars

\* A shutdown signal is pending while Login waits for the silent peer.
C23_Witness == Hung /\ sig /\ mpc = "poll_connect"

\* The state the bridge has on record is the one the latest poll that got to
\* the switch observed: no observation was left without its update or clear.
RecordedIsObserved == prevObs # Nil => Deref(prevObs).state = lastState

\* A poll calls ClearPresence only for StatePaused or StateNotRunning, and only
\* when that is not the state on record.
ClearOnlyOnChange ==
    (mpc = "poll_state" /\ mpc' = "poll_clear") =>
        /\ pstate' \in {Ptr(StatePaused), Ptr(StateNotRunning)}
        /\ Deref(pstate') # lastState
        /\ bm'[Poller] = "ClearPresence"
        /\ plog = <<>>

\* The ClearPresence of a poll made one ClearActivity, which wrote its frame
\* or failed writing it; the observed state is then on record, and the track
\* is forgotten for StateNotRunning only.
ClearedOnce ==
    (mpc = "poll_clear" /\ mpc' = "select") =>
        /\ plog \in {<<"clear_sent">>, <<"clear_failed">>}
        /\ lastState' = Deref(pstate)
        /\ lastTrack' = (IF Deref(pstate) = StateNotRunning THEN Nil ELSE lastTrack)

\* After a pause or a stop, a poll that reads StatePlaying leaves without an
\* update only when GetCurrentTrack failed: nothing was observed.
PlayingAfterClearUpdates ==
    (mpc = "poll_track" /\ lastState # StatePlaying /\ mpc' = "select") =>
        prevObs' = prevObs

\* The UpdatePresence of a poll made one SetActivity, which wrote its frame or
\* failed writing it.
UpdatedOnce ==
    (mpc = "poll_update" /\ mpc' = "select") =>
        plog \in {<<"set_sent">>, <<"set_failed">>}

\* C24: presence is cleared on leaving playback. A poll that observes
\* StatePaused or StateNotRunning while another state is on record makes
\* exactly one ClearActivity and puts the observed state on record, forgetting
\* the track for StateNotRunning only; a poll that observes the state on
\* record clears nothing; and a poll that observes StatePlaying and a track
\* after that makes a SetActivity, for the same track too.
C24_ClearedOnLeavingPlayback ==
    /\ []RecordedIsObserved
    /\ [][ClearOnlyOnChange /\ ClearedOnce /\ PlayingAfterClearUpdates /\ UpdatedOnce]_vars

\* After a pause the poll observed the very track on record playing again, and
\* its SetActivity frame has been written.
C24_Witness ==
    /\ mpc = "poll_update"
    /\ lastState = StatePaused
    /\ lastTrack = Ptr(barg[Poller])
    /\ plog = <<"set_sent">>

\* C25: the bridge's flag and the client's agree between operations. Whenever
\* no caller holds b.mu, connected is true exactly when logged is; so every
\* SetActivity and ClearActivity that UpdatePresence and ClearPresence make
\* finds the client logged in, and the Logout that Disconnect makes closes a
\* connection.
C25_ConnectedIffLogged ==
    /\ (mu = NoCaller => (connected <=> logged))
    /\ \A t \in Callers :
         /\ (op[t] \in {"SetActivity", "ClearActivity"} => logged)
         /\ (op[t] = "Logout" /\ cpc[t] = "done" => io[t] = <<Event("close", "ok", -1)>>)

\* The bridge is connected again, between operations, after a Disconnect
\* closed an earlier connection.
C25_Witness ==
    /\ mu = NoCaller
    /\ connected /\ logged
    /\ \E e \in Endpoints : epState[e] = "closed"

====
